---- MODULE Spec2Model ----
(***************************************************************************)
(* Order workflow of src/routes/accountRoute.js (the orderRoute handlers): *)
(* add-to-cart, confirm-payment, update-shipping, confirm-delivery and     *)
(* cancel-order, run against the shared Account / Product / Order          *)
(* collections.  Every handler is split at its awaits: one action per      *)
(* database round trip, so that requests interleave exactly where the      *)
(* event loop can switch between them.  A Mongoose save() of a loaded      *)
(* document writes the modified paths with the values computed from the    *)
(* copy read earlier ($set), without any version check.                    *)
(***************************************************************************)
EXTENDS Integers, Sequences, FiniteSets, TLC

(* ------------------------------ bounds --------------------------------- *)
\* total number of line items the Order collection may hold
MaxLines == 2
\* stock of every product in the initial state
InitQuantity == 2
\* orders the collection may hold while requests overlap
MaxRacedOrders == 1
\* how many database calls may reject in one behaviour
MaxFaults == 1
\* the largest amount of one add-balance request
MaxAmount == 2
\* add-balance requests are taken while the balance read is below this
MaxBalance == 3

(* ----------------------------- universe -------------------------------- *)
\* largest quantity a cart item may ask for
MaxQty == InitQuantity
Null == "null"
Products == {"p1", "p2"}
\* a product id that resolves to no Product document
ProductInputs == Products \cup {"p0"}
Accounts == {"cust", "adm"}
\* an account id that resolves to no Account document, and an absent field
AccountInputs == Accounts \cup {"a0", Null}
Reqs == {"r1", "r2"}
\* the slot that serves the requests when they come one after the other
Server == "r1"
OrderIds == 1..MaxLines
Items == [product : ProductInputs, quantity : 1..MaxQty]
Carts == UNION {[1..n -> Items] : n \in 0..MaxLines}
ResponseCodes == {"00", "24"}

\* Product.price: even values, so that totalAmount * 0.5 is an integer
price == [p \in Products |-> IF p = "p1" THEN 10 ELSE 4]
\* Account.role
role == [a \in Accounts |-> IF a = "adm" THEN "admin" ELSE "customer"]

VARIABLES
    orders,     \* the Order collection, in creation order; _id = index
    quantity,   \* Product.quantity of every product
    balance,    \* Account.balance of every account
    req,        \* the requests in flight, one per slot
    faults,     \* how many database calls have rejected so far
    ledger      \* history: per order, the writes the handlers made for it

vars == <<orders, quantity, balance, req, faults, ledger>>

(* ------------------------------ helpers -------------------------------- *)
NoResp == [kind |-> "none", code |-> 0, status |-> "", message |-> "", refundAmount |-> -1, orderId |-> 0]

\* res.status(code).json({message})
Json(code, message) ==
    [kind |-> "json", code |-> code, status |-> "", message |-> message, refundAmount |-> -1, orderId |-> 0]

\* res.status(code).json({message, orderId}) / ({orderId, vnpayResponse})
JsonOrder(code, message, id) ==
    [kind |-> "json", code |-> code, status |-> "", message |-> message, refundAmount |-> -1, orderId |-> id]

\* res.status(200).json({message, refundAmount})
JsonRefund(message, amount) ==
    [kind |-> "json", code |-> 200, status |-> "", message |-> message, refundAmount |-> amount, orderId |-> 0]

\* res.redirect(`exp://.../cart?status=...&message=...`)
Redirect(status, message) ==
    [kind |-> "redirect", code |-> 302, status |-> status, message |-> message, refundAmount |-> -1, orderId |-> 0]

NoSnap == [taken |-> FALSE]
Snapshot == [taken |-> TRUE, orders |-> orders, quantity |-> quantity, balance |-> balance]

\* the value of a local that holds no Order document
NoOrder ==
    [account |-> Null, items |-> <<>>, totalAmount |-> 0, status |-> "none",
     imageConfirmDelivered |-> Null]

Idle ==
    [op |-> "none", pc |-> "idle", orderId |-> 0, code |-> "", file |-> FALSE,
     account |-> Null, hasItems |-> FALSE, items |-> <<>>, order |-> NoOrder,
     i |-> 0, doc |-> 0, amount |-> 0, listed |-> <<>>, admin |-> Null, threw |-> FALSE, mail |-> "none", totalAmount |-> 0, orderItems |-> <<>>, resp |-> NoResp, pre |-> NoSnap]

AllIdle == \A r \in Reqs : req[r].pc = "idle"

\* a new request may start in slot r; serially: only when nothing is in flight.
\* An add-to-cart is always served alone: what overlaps are the requests on
\* orders that exist.
CanStart(r, op, serial) ==
    /\ req[r].pc = "idle"
    /\ (serial \/ op = "add-to-cart") => AllIdle
    /\ \A o \in Reqs : req[o].op # "add-to-cart"

Begin(r, op, serial) ==
    [Idle EXCEPT !.op = op, !.pre = IF serial THEN Snapshot ELSE NoSnap]

\* the handler has sent its response.  Served serially, the request stays in
\* its slot with the response until Reply; when requests overlap the
\* response is not kept and the slot is free at once.
Done(q, resp) ==
    IF q.pre.taken THEN [q EXCEPT !.pc = "done", !.resp = resp] ELSE Idle

\* db.Order.findById(orderId): a document, or null
OrderExists(id) == id \in 1..Len(orders)
FindOrder(id) == IF OrderExists(id) THEN orders[id] ELSE NoOrder

\* history kept per order: how often the owner was credited a refund for it,
\* and how often the stock of each of its line items was reduced / restored
NoWrites ==
    [refunds |-> 0, reduced |-> [k \in 1..MaxLines |-> 0],
     restored |-> [k \in 1..MaxLines |-> 0]]

Init ==
    /\ orders = <<>>
    /\ quantity = [p \in Products |-> InitQuantity]
    /\ balance = [a \in Accounts |-> 0]
    /\ req = [r \in Reqs |-> Idle]
    /\ faults = 0
    /\ ledger = [id \in OrderIds |-> NoWrites]

(* ------------------------------ add-to-cart ---------------------------- *)
RECURSIVE SumLines(_)
SumLines(os) == IF os = <<>> THEN 0 ELSE Len(Head(os).items) + SumLines(Tail(os))

RECURSIVE SumReserved(_)
SumReserved(rs) ==
    IF rs = {} THEN 0
    ELSE LET r == CHOOSE x \in rs : TRUE
         IN (IF req[r].op = "add-to-cart" /\ req[r].pc # "done" THEN Len(req[r].items) ELSE 0)
            + SumReserved(rs \ {r})

\* line items persisted, or about to be persisted by an add-to-cart in flight
LinesUsed == SumLines(orders) + SumReserved(Reqs)

\* POST /add-to-cart: body validation and db.Account.findById(account)
\* (hasItems = FALSE: the body carries no items field)
AddToCart(r, account, hasItems, items, serial) ==
    /\ CanStart(r, "add-to-cart", serial)
    /\ Len(items) <= MaxLines - LinesUsed
    /\ ~hasItems => items = <<>>
    /\ serial \/ Len(orders) < MaxRacedOrders
    /\ LET q == [Begin(r, "add-to-cart", serial) EXCEPT
                   !.account = account, !.hasItems = hasItems, !.items = items]
       IN req' = [req EXCEPT ![r] =
          IF account = Null \/ ~hasItems \/ Len(items) = 0
          THEN Done(q, Json(400, "An order must contain at least one product."))
          ELSE IF account \notin Accounts
          THEN Done(q, Json(404, "Account not found."))
          ELSE [q EXCEPT !.i = 1, !.pc = "findProduct"]]
    /\ UNCHANGED <<orders, quantity, balance, faults, ledger>>

\* (mutant) the stock check is missing
InStockUnchecked(stock, item) == TRUE

\* the stock check of one cart item: not (product.quantity < item.quantity)
InStock(stock, item) == ~(stock < item.quantity)

\* (mutant) the quantity is left out of the amount
LineAmountPerUnit(item) == price[item.product]

\* what one cart item adds to totalAmount: item.quantity * product.price
LineAmount(item) == item.quantity * price[item.product]

\* one turn of the item loop: db.Product.findById(item.product) and the checks
AddToCartFindProduct(r) ==
    /\ req[r].op = "add-to-cart" /\ req[r].pc = "findProduct"
    /\ LET q == req[r]
           item == q.items[q.i]
       IN req' = [req EXCEPT ![r] =
          IF item.product \notin Products
          THEN Done(q, Json(404, "Product not found."))
          ELSE IF ~InStock(quantity[item.product], item)
          THEN Done(q, Json(400, "Not enough stock"))
          ELSE [q EXCEPT !.totalAmount = @ + LineAmount(item),
                         !.orderItems = Append(@, [product |-> item.product,
                                                   quantity |-> item.quantity]),
                         !.i = @ + 1,
                         !.pc = IF q.i = Len(q.items) THEN "saveOrder" ELSE "findProduct"]]
    /\ UNCHANGED <<orders, quantity, balance, faults, ledger>>

\* new db.Order({...}); await newOrder.save(); the payment URL; 201
AddToCartSave(r) ==
    /\ req[r].op = "add-to-cart" /\ req[r].pc = "saveOrder"
    /\ LET q == req[r] IN
       /\ orders' = Append(orders,
             [account |-> q.account, items |-> q.orderItems,
              totalAmount |-> q.totalAmount, status |-> "Pending",
              imageConfirmDelivered |-> Null])
       /\ req' = [req EXCEPT ![r] = Done(q, JsonOrder(201, "", Len(orders) + 1))]
    /\ UNCHANGED <<quantity, balance, faults, ledger>>

(* --------------------------- confirm-payment --------------------------- *)
\* vnp_ResponseCode !== "00" fails the payment
PaymentSucceeded(code) == code = "00"

\* (mutant) the guard also lets a Paid order through
AwaitsPaymentOrPaid(order) == order.status \in {"Pending", "Paid"}

\* the guard against a second callback: order.status !== "Pending" is refused
AwaitsPayment(order) == order.status = "Pending"

\* GET /confirm-payment/:orderId: the response-code check, then
\* db.Order.findById(orderId).populate("items.product") and the status check
ConfirmPayment(r, orderId, code, serial) ==
    /\ CanStart(r, "confirm-payment", serial)
    /\ LET q == [Begin(r, "confirm-payment", serial) EXCEPT !.orderId = orderId, !.code = code]
           order == FindOrder(orderId)
       IN req' = [req EXCEPT ![r] =
          IF ~PaymentSucceeded(code)
          THEN Done(q, Redirect("error", "Payment unsuccessful"))
          ELSE IF ~OrderExists(orderId)
          THEN Done(q, Redirect("error", "Order not found"))
          ELSE IF ~AwaitsPayment(order)
          THEN Done(q, Redirect("error", "Order already processed"))
          ELSE [q EXCEPT !.order = [order EXCEPT !.status = "Paid"], !.pc = "saveOrder"]]
    /\ UNCHANGED <<orders, quantity, balance, faults, ledger>>

\* (mutant) the stock loop starts before the order is saved
ConfirmPaymentSaveOrderDeferred(r) ==
    /\ req[r].op = "confirm-payment" /\ req[r].pc = "saveOrder"
    /\ LET q == req[r] IN
       req' = [req EXCEPT ![r] =
             IF Len(q.order.items) = 0
             THEN Done(q, Redirect("success", ""))
             ELSE [q EXCEPT !.i = 1, !.pc = "findProduct"]]
    /\ UNCHANGED <<orders, quantity, balance, faults, ledger>>

\* order.status = "Paid"; await order.save()
ConfirmPaymentSaveOrder(r) ==
    /\ req[r].op = "confirm-payment" /\ req[r].pc = "saveOrder"
    /\ LET q == req[r] IN
       /\ orders' = [orders EXCEPT ![q.orderId].status = q.order.status]
       /\ req' = [req EXCEPT ![r] =
             IF Len(q.order.items) = 0
             THEN Done(q, Redirect("success", ""))
             ELSE [q EXCEPT !.i = 1, !.pc = "findProduct"]]
    /\ UNCHANGED <<quantity, balance, faults, ledger>>

\* db.Product.findById(item.product._id)
ConfirmPaymentFindProduct(r) ==
    /\ req[r].op = "confirm-payment" /\ req[r].pc = "findProduct"
    /\ LET q == req[r]
           item == q.order.items[q.i]
       IN req' = [req EXCEPT ![r] = [q EXCEPT !.doc = quantity[item.product],
                                              !.pc = "saveProduct"]]
    /\ UNCHANGED <<orders, quantity, balance, faults, ledger>>

\* (mutant) the stock is looked at again and never written below zero
ReducedQuantityFloored(doc, item) ==
    IF doc < item.quantity THEN 0 ELSE doc - item.quantity

\* the stock written by product.quantity -= item.quantity
ReducedQuantity(doc, item) == doc - item.quantity

\* product.quantity -= item.quantity; await product.save(); after the last
\* item the redirect to the success page
ConfirmPaymentSaveProduct(r) ==
    /\ req[r].op = "confirm-payment" /\ req[r].pc = "saveProduct"
    /\ LET q == req[r]
           item == q.order.items[q.i]
       IN /\ quantity' = [quantity EXCEPT ![item.product] = ReducedQuantity(q.doc, item)]
          /\ req' = [req EXCEPT ![r] =
                IF q.i = Len(q.order.items)
                THEN Done(q, Redirect("success", ""))
                ELSE [q EXCEPT !.i = @ + 1, !.pc = "findProduct"]]
          /\ ledger' = [ledger EXCEPT ![q.orderId].reduced[q.i] = @ + 1]
    /\ UNCHANGED <<orders, balance, faults>>

(* --------------------------- update-shipping --------------------------- *)
\* (mutant) a Pending order may be shipped as well
CanShipUnpaid(order) == order.status \in {"Pending", "Paid"}

\* order.status !== "Paid" is refused
CanShip(order) == order.status = "Paid"

\* PATCH /update-shipping/:orderId: db.Order.findById(orderId) and the checks
UpdateShipping(r, orderId, serial) ==
    /\ CanStart(r, "update-shipping", serial)
    /\ LET q == [Begin(r, "update-shipping", serial) EXCEPT !.orderId = orderId]
           order == FindOrder(orderId)
       IN req' = [req EXCEPT ![r] =
          IF ~OrderExists(orderId)
          THEN Done(q, Json(404, "Order not found."))
          ELSE IF ~CanShip(order)
          THEN Done(q, Json(400, "Only paid orders can be marked as shipping."))
          ELSE [q EXCEPT !.order = [order EXCEPT !.status = "Shipping"], !.pc = "saveOrder"]]
    /\ UNCHANGED <<orders, quantity, balance, faults, ledger>>

\* order.status = "Shipping"; await order.save(); 200
UpdateShippingSave(r) ==
    /\ req[r].op = "update-shipping" /\ req[r].pc = "saveOrder"
    /\ LET q == req[r] IN
       /\ orders' = [orders EXCEPT ![q.orderId].status = q.order.status]
       /\ req' = [req EXCEPT ![r] =
             Done(q, JsonOrder(200, "Order status updated to Shipping.", q.orderId))]
    /\ UNCHANGED <<quantity, balance, faults, ledger>>

(* --------------------------- confirm-delivery -------------------------- *)
\* the URL stored for an uploaded file
DeliveryImage == "uploads/deliveryConfirmation"

\* (mutant) the check of req.file is missing
DeliveryRefusalNoFileCheck(order, file) ==
    IF order.status # "Shipping" THEN "Only shipping orders can be confirmed as delivered."
    ELSE ""

\* the two checks before a delivery is recorded: the message of the one that
\* refuses the request, "" when both pass
DeliveryRefusal(order, file) ==
    IF order.status # "Shipping" THEN "Only shipping orders can be confirmed as delivered."
    ELSE IF ~file THEN "Delivery confirmation image is required."
    ELSE ""

\* POST /confirm-delivery/:orderId (file: whether multer attached req.file):
\* db.Order.findById(orderId) and the checks
ConfirmDelivery(r, orderId, file, serial) ==
    /\ CanStart(r, "confirm-delivery", serial)
    /\ LET q == [Begin(r, "confirm-delivery", serial) EXCEPT !.orderId = orderId, !.file = file]
           order == FindOrder(orderId)
       IN req' = [req EXCEPT ![r] =
          IF ~OrderExists(orderId)
          THEN Done(q, Json(404, "Order not found."))
          ELSE IF DeliveryRefusal(order, file) # ""
          THEN Done(q, Json(400, DeliveryRefusal(order, file)))
          ELSE [q EXCEPT !.order = [order EXCEPT !.imageConfirmDelivered = DeliveryImage,
                                                 !.status = "Delivered"],
                         !.pc = "saveOrder"]]
    /\ UNCHANGED <<orders, quantity, balance, faults, ledger>>

\* order.imageConfirmDelivered = ...; order.status = "Delivered"; save(); 200
ConfirmDeliverySave(r) ==
    /\ req[r].op = "confirm-delivery" /\ req[r].pc = "saveOrder"
    /\ LET q == req[r] IN
       /\ orders' = [orders EXCEPT
             ![q.orderId].imageConfirmDelivered = q.order.imageConfirmDelivered,
             ![q.orderId].status = q.order.status]
       /\ req' = [req EXCEPT ![r] =
             Done(q, JsonOrder(200, "Order delivery confirmed.", q.orderId))]
    /\ UNCHANGED <<quantity, balance, faults, ledger>>

(* ----------------------------- cancel-order ---------------------------- *)
\* const refundAmount = order.totalAmount * 0.5 (totals are even here)
RefundAmount(order) == order.totalAmount \div 2

\* the accounts db.Account.findOne({role: "admin"}) can return
AdminAccounts == {a \in Accounts : role[a] = "admin"}

\* (mutant) the check refuses only orders that are already Canceled
CanCancelUnlessCanceled(order) == order.status # "Canceled"

\* order.status !== "Paid" is refused
CanCancel(order) == order.status = "Paid"

\* POST /cancel-order/:orderId:
\* db.Order.findById(orderId).populate("items.product") and the checks
CancelOrder(r, orderId, serial) ==
    /\ CanStart(r, "cancel-order", serial)
    /\ LET q == [Begin(r, "cancel-order", serial) EXCEPT !.orderId = orderId]
           order == FindOrder(orderId)
       IN req' = [req EXCEPT ![r] =
          IF ~OrderExists(orderId)
          THEN Done(q, Json(404, "Khong tim thay don hang"))
          ELSE IF ~CanCancel(order)
          THEN Done(q, Json(400, "Only paid orders can be canceled."))
          ELSE [q EXCEPT !.order = order, !.pc = "findAccount"]]
    /\ UNCHANGED <<orders, quantity, balance, faults, ledger>>

\* const account = await db.Account.findById(order.account)
CancelFindAccount(r) ==
    /\ req[r].op = "cancel-order" /\ req[r].pc = "findAccount"
    /\ LET q == req[r] IN
       req' = [req EXCEPT ![r] = [q EXCEPT !.doc = balance[q.order.account],
                                           !.pc = "saveAccount"]]
    /\ UNCHANGED <<orders, quantity, balance, faults, ledger>>

\* account.balance += refundAmount; await account.save()
CancelSaveAccount(r) ==
    /\ req[r].op = "cancel-order" /\ req[r].pc = "saveAccount"
    /\ LET q == req[r] IN
       /\ balance' = [balance EXCEPT ![q.order.account] = q.doc + RefundAmount(q.order)]
       /\ req' = [req EXCEPT ![r] = [q EXCEPT !.pc = "findAdmin"]]
       /\ ledger' = [ledger EXCEPT ![q.orderId].refunds = @ + 1]
    /\ UNCHANGED <<orders, quantity, faults>>

\* where the handler goes once the two credits are done: into the item loop,
\* or, with no items, past it to the end of the function (no response is sent)
AfterCredits(q) ==
    IF Len(q.order.items) = 0 THEN [q EXCEPT !.pc = "hung"]
    ELSE [q EXCEPT !.i = 1, !.pc = "findProduct"]

\* const adminAccount = await db.Account.findOne({ role: "admin" })
CancelFindAdmin(r) ==
    /\ req[r].op = "cancel-order" /\ req[r].pc = "findAdmin"
    /\ LET q == req[r] IN
       IF AdminAccounts = {}
       THEN req' = [req EXCEPT ![r] = AfterCredits(q)]
       ELSE \E a \in AdminAccounts :
               req' = [req EXCEPT ![r] = [q EXCEPT !.admin = a, !.doc = balance[a],
                                                   !.pc = "saveAdmin"]]
    /\ UNCHANGED <<orders, quantity, balance, faults, ledger>>

\* adminAccount.balance += refundAmount; await adminAccount.save()
CancelSaveAdmin(r) ==
    /\ req[r].op = "cancel-order" /\ req[r].pc = "saveAdmin"
    /\ LET q == req[r] IN
       /\ balance' = [balance EXCEPT ![q.admin] = q.doc + RefundAmount(q.order)]
       /\ req' = [req EXCEPT ![r] = AfterCredits(q)]
    /\ UNCHANGED <<orders, quantity, faults, ledger>>

\* in the item loop: db.Product.findById(item.product._id)
CancelFindProduct(r) ==
    /\ req[r].op = "cancel-order" /\ req[r].pc = "findProduct"
    /\ LET q == req[r]
           item == q.order.items[q.i]
       IN req' = [req EXCEPT ![r] = [q EXCEPT !.doc = quantity[item.product],
                                              !.pc = "saveProduct"]]
    /\ UNCHANGED <<orders, quantity, balance, faults, ledger>>

\* the stock written by product.quantity += item.quantity
RestoredQuantity(doc, item) == doc + item.quantity

\* product.quantity += item.quantity; await product.save()
CancelSaveProduct(r) ==
    /\ req[r].op = "cancel-order" /\ req[r].pc = "saveProduct"
    /\ LET q == req[r]
           item == q.order.items[q.i]
       IN /\ quantity' = [quantity EXCEPT ![item.product] = RestoredQuantity(q.doc, item)]
          /\ req' = [req EXCEPT ![r] = [q EXCEPT !.pc = "saveOrder"]]
          /\ ledger' = [ledger EXCEPT ![q.orderId].restored[q.i] = @ + 1]
    /\ UNCHANGED <<orders, balance, faults>>

\* what transporter.sendMail hands to its callback
MailOutcomes == {"sent", "failed"}

\* (mutant) a failed send is reported to the caller
CancelResponseMailChecked(q, outcome) ==
    IF outcome = "failed" THEN Json(500, "Loi may chu")
    ELSE JsonRefund("Don hang da duoc huy va hoan tien 50%.", RefundAmount(q.order))

\* the answer after the mail was handed to the transporter: the callback
\* only logs, the handler returns 200 with refundAmount
CancelResponse(q, outcome) ==
    JsonRefund("Don hang da duoc huy va hoan tien 50%.", RefundAmount(q.order))

\* still inside the first turn of the item loop: order.status = "Canceled";
\* await order.save(); the refund email; return res.status(200)
CancelSaveOrder(r) ==
    /\ req[r].op = "cancel-order" /\ req[r].pc = "saveOrder"
    /\ LET q == req[r] IN
       /\ orders' = [orders EXCEPT ![q.orderId].status = "Canceled"]
       /\ \E outcome \in MailOutcomes :
             req' = [req EXCEPT ![r] =
                Done([q EXCEPT !.mail = outcome], CancelResponse(q, outcome))]
    /\ UNCHANGED <<quantity, balance, faults, ledger>>

(* ----------------------------- add-balance ----------------------------- *)
\* the amounts a request body may carry: negative, zero, positive
Amounts == -1..MaxAmount

\* !account || !amount || amount <= 0
InvalidCredit(account, amount) == account = Null \/ amount <= 0

\* (mutant) the credit is added to the stored balance in one atomic update
CreditedBalanceAtomic(stored, doc, amount) == stored + amount

\* accountDetails.balance += amount on the document read, then save(): the
\* value written is computed from the balance that was read
CreditedBalance(stored, doc, amount) == doc + amount

\* PATCH /add-balance: the validation, db.Account.findById(account) and the
\* 404.  The response of an add-balance is kept until Reply also when
\* requests overlap.
AddBalance(r, account, amount, serial) ==
    /\ CanStart(r, "add-balance", serial)
    /\ account \in Accounts => balance[account] < MaxBalance
    /\ LET q == [Begin(r, "add-balance", TRUE) EXCEPT !.account = account, !.amount = amount]
       IN req' = [req EXCEPT ![r] =
          IF InvalidCredit(account, amount)
          THEN Done(q, Json(400, "Invalid request."))
          ELSE IF account \notin Accounts
          THEN Done(q, Json(404, "Account not found."))
          ELSE [q EXCEPT !.doc = balance[account], !.pc = "saveBalance"]]
    /\ UNCHANGED <<orders, quantity, balance, faults, ledger>>

\* accountDetails.balance += amount; await accountDetails.save(); 200
AddBalanceSave(r) ==
    /\ req[r].op = "add-balance" /\ req[r].pc = "saveBalance"
    /\ LET q == req[r] IN
       /\ balance' = [balance EXCEPT ![q.account] = CreditedBalance(@, q.doc, q.amount)]
       /\ req' = [req EXCEPT ![r] = Done(q, Json(200, "Balance added successfully."))]
    /\ UNCHANGED <<orders, quantity, faults, ledger>>

(* ---------------------------- shipper-orders --------------------------- *)
\* status: { $in: ["Paid", "Shipping", "Delivered"] }
ShipperStatuses == {"Paid", "Shipping", "Delivered"}

\* the status values in the ascending order of a string sort
\* ("C" < "D" < "Pa" < "Pe" < "S")
StatusAscending == <<"Canceled", "Delivered", "Paid", "Pending", "Shipping">>

\* (mutant) the sort key puts Paid ahead of every other status
StatusRankPaidFirst(status) ==
    IF status = "Paid" THEN 0
    ELSE CHOOSE k \in 1..Len(StatusAscending) : StatusAscending[k] = status

\* sort({status: 1}): the place of a status string in ascending order
StatusRank(status) ==
    CHOOSE k \in 1..Len(StatusAscending) : StatusAscending[k] = status

\* createdAt of an order: orders are numbered in the order they were created
CreatedAt(id) == id

\* sort({status: 1, createdAt: -1}): order a comes before order b
SortsBefore(os, a, b) ==
    \/ StatusRank(os[a].status) < StatusRank(os[b].status)
    \/ /\ StatusRank(os[a].status) = StatusRank(os[b].status)
       /\ CreatedAt(a) > CreatedAt(b)

\* db.Order.find({status: {$in: ...}}).sort(...): the ids of the matching
\* orders of collection os, in the order they are returned
ShipperList(os) ==
    LET found == {id \in 1..Len(os) : os[id].status \in ShipperStatuses}
        place(id) == 1 + Cardinality({o \in found : SortsBefore(os, o, id)})
    IN [k \in 1..Cardinality(found) |-> CHOOSE id \in found : place(id) = k]

\* GET /shipper-orders: the query and res.status(200).json(orders)
ShipperOrders(r, serial) ==
    /\ CanStart(r, "shipper-orders", serial)
    /\ LET q == [Begin(r, "shipper-orders", serial) EXCEPT !.listed = ShipperList(orders)]
       IN req' = [req EXCEPT ![r] = Done(q, Json(200, ""))]
    /\ UNCHANGED <<orders, quantity, balance, faults, ledger>>

(* ------------------------------ responses ------------------------------ *)
\* the response has gone out; the slot is free for the next request
Reply(r) ==
    /\ req[r].pc = "done"
    /\ req' = [req EXCEPT ![r] = Idle]
    /\ UNCHANGED <<orders, quantity, balance, faults, ledger>>

(* ------------------------------- failures ------------------------------ *)
\* (mutant) confirm-payment answers an exception like the other handlers
CatchResponseJson(op) == Json(500, "Server error.")

\* what the handler's catch block sends
CatchResponse(op) ==
    IF op = "confirm-payment" THEN Redirect("error", "error.message")
    ELSE IF op = "cancel-order" THEN Json(500, "Loi may chu")
    ELSE Json(500, "Server error.")

AwaitingDb(q) ==
    q.pc \in {"findProduct", "saveProduct", "saveOrder", "findAccount", "saveAccount",
              "findAdmin", "saveAdmin"}

\* the database call the request is waiting for rejects: control passes to catch
DbError(r) ==
    /\ faults < MaxFaults
    /\ AwaitingDb(req[r])
    /\ req' = [req EXCEPT ![r] =
          Done([req[r] EXCEPT !.threw = TRUE], CatchResponse(req[r].op))]
    /\ faults' = faults + 1
    /\ UNCHANGED <<orders, quantity, balance, ledger>>

\* cancel-order: order.save() has succeeded, then fs.readFileSync / the
\* template rendering throws: control passes to catch with the order saved
CancelTemplateFails(r) ==
    /\ faults < MaxFaults
    /\ req[r].op = "cancel-order" /\ req[r].pc = "saveOrder"
    /\ orders' = [orders EXCEPT ![req[r].orderId].status = "Canceled"]
    /\ req' = [req EXCEPT ![r] =
          Done([req[r] EXCEPT !.threw = TRUE], CatchResponse("cancel-order"))]
    /\ faults' = faults + 1
    /\ UNCHANGED <<quantity, balance, ledger>>

\* the handler's first query, db.Order.findById(orderId), rejects
FindOrderFails(r, op, orderId, serial) ==
    /\ faults < MaxFaults
    /\ CanStart(r, op, serial)
    /\ op \in {"confirm-payment", "update-shipping", "confirm-delivery", "cancel-order"}
    /\ req' = [req EXCEPT ![r] =
          Done([Begin(r, op, serial) EXCEPT !.orderId = orderId, !.threw = TRUE,
                   !.code = IF op = "confirm-payment" THEN "00" ELSE ""],
               CatchResponse(op))]
    /\ faults' = faults + 1
    /\ UNCHANGED <<orders, quantity, balance, ledger>>

\* add-to-cart's first query, db.Account.findById(account), rejects
FindAccountFails(r, account, items, serial) ==
    /\ faults < MaxFaults
    /\ CanStart(r, "add-to-cart", serial)
    /\ account # Null /\ Len(items) > 0
    /\ Len(items) <= MaxLines - LinesUsed
    /\ req' = [req EXCEPT ![r] =
          Done([Begin(r, "add-to-cart", serial) EXCEPT
                   !.account = account, !.hasItems = TRUE, !.items = items,
                   !.threw = TRUE],
               CatchResponse("add-to-cart"))]
    /\ faults' = faults + 1
    /\ UNCHANGED <<orders, quantity, balance, ledger>>

(* ---------------------------- specifications --------------------------- *)
\* one step of a request already in flight
Work(r) ==
    \/ AddToCartFindProduct(r)
    \/ AddToCartSave(r)
    \/ ConfirmPaymentSaveOrder(r)
    \/ ConfirmPaymentFindProduct(r)
    \/ ConfirmPaymentSaveProduct(r)
    \/ UpdateShippingSave(r)
    \/ ConfirmDeliverySave(r)
    \/ CancelFindAccount(r)
    \/ CancelSaveAccount(r)
    \/ CancelFindAdmin(r)
    \/ CancelSaveAdmin(r)
    \/ CancelFindProduct(r)
    \/ CancelSaveProduct(r)
    \/ CancelSaveOrder(r)

\* a request arrives
Arrive(r, serial) ==
    \/ \E a \in AccountInputs, h \in BOOLEAN, c \in Carts : AddToCart(r, a, h, c, serial)
    \/ \E id \in OrderIds, code \in ResponseCodes : ConfirmPayment(r, id, code, serial)
    \/ \E id \in OrderIds : UpdateShipping(r, id, serial)
    \/ \E id \in OrderIds, f \in BOOLEAN : ConfirmDelivery(r, id, f, serial)
    \/ \E id \in OrderIds : CancelOrder(r, id, serial)

\* a database call rejects
Fail(r, serial) ==
    \/ DbError(r)
    \/ CancelTemplateFails(r)
    \/ \E op \in {"confirm-payment", "update-shipping", "confirm-delivery", "cancel-order"},
          id \in OrderIds : FindOrderFails(r, op, id, serial)
    \/ \E a \in AccountInputs, c \in Carts : FindAccountFails(r, a, c, serial)

\* requests overlap: any request may take its next step at any time
Next == \E r \in Reqs : Arrive(r, FALSE) \/ Work(r)
Spec == Init /\ [][Next]_vars

\* requests are served one after the other
SeqNext == Arrive(Server, TRUE) \/ Work(Server) \/ Reply(Server)
SeqSpec == Init /\ [][SeqNext]_vars

\* requests are served one after the other, listings among them
ListNext == SeqNext \/ ShipperOrders(Server, TRUE)
ListSpec == Init /\ [][ListNext]_vars

\* add-balance requests alone, overlapping in the two slots
CreditNext ==
    \E r \in Reqs :
        \/ \E account \in AccountInputs, amount \in Amounts :
              AddBalance(r, account, amount, FALSE)
        \/ AddBalanceSave(r)
        \/ Reply(r)

CreditSpec == Init /\ [][CreditNext]_vars

\* requests are served one after the other and database calls may reject
FaultNext == Arrive(Server, TRUE) \/ Work(Server) \/ Reply(Server) \/ Fail(Server, TRUE)
FaultSpec == Init /\ [][FaultNext]_vars

(* ------------------------------- claims -------------------------------- *)
\* the request the serial specifications are serving, and the state it found
S == req[Server]
Pre == S.pre
Answered(op) == S.op = op /\ S.pc = "done" /\ ~S.threw
PreExists == S.orderId \in 1..Len(Pre.orders)
PreOrder == Pre.orders[S.orderId]
DbUnchanged == orders = Pre.orders /\ quantity = Pre.quantity /\ balance = Pre.balance

\* the units of product p that the line items ask for, all items together
RECURSIVE Ordered(_, _)
Ordered(items, p) ==
    IF items = <<>> THEN 0
    ELSE (IF Head(items).product = p THEN Head(items).quantity ELSE 0)
         + Ordered(Tail(items), p)

AllowedChanges ==
    {<<"Pending", "Paid">>, <<"Paid", "Shipping">>, <<"Shipping", "Delivered">>,
     <<"Paid", "Canceled">>}

\* C1: whatever requests overlap, every change of an order's persisted status
\* is Pending->Paid, Paid->Shipping, Shipping->Delivered or Paid->Canceled.
\* (Fails: a cancel-order and an update-shipping that both read the order as
\* Paid write Shipping and then Canceled.)
C1_OnlyAllowedStatusChanges ==
    [][\A id \in 1..Len(orders) :
          orders'[id].status # orders[id].status
          => <<orders[id].status, orders'[id].status>> \in AllowedChanges]_vars

\* C2: confirm-payment with code "00", served alone: on a Pending order it
\* leaves the order Paid and every product's stock lower by the quantities of
\* the order's line items; on the order it has already processed it changes
\* neither the order nor any stock and redirects with "Order already processed".
C2_ConfirmPaymentTwice ==
    (Answered("confirm-payment") /\ PaymentSucceeded(S.code) /\ PreExists)
    => IF PreOrder.status = "Pending"
       THEN /\ S.resp = Redirect("success", "")
            /\ orders = [Pre.orders EXCEPT ![S.orderId].status = "Paid"]
            /\ \A p \in Products :
                  quantity[p] = Pre.quantity[p] - Ordered(PreOrder.items, p)
            /\ balance = Pre.balance
       ELSE /\ S.resp = Redirect("error", "Order already processed")
            /\ DbUnchanged

\* the second callback has been answered: the order was found Paid, with the
\* stock already reduced by the first one
C2_SecondCallAnswered ==
    /\ Answered("confirm-payment") /\ PaymentSucceeded(S.code) /\ PreExists
    /\ PreOrder.status = "Paid"
    /\ \E p \in Products : Pre.quantity[p] = InitQuantity - Ordered(PreOrder.items, p)
                           /\ Ordered(PreOrder.items, p) = 2

\* C3: a cancel-order that answers 200 has raised the stock of the product of
\* every line item by that item's quantity.
\* (Fails: the handler returns inside the first turn of its item loop.)
C3_CancelRestoresEveryItem ==
    (Answered("cancel-order") /\ S.resp.code = 200)
    => \A p \in Products : quantity[p] = Pre.quantity[p] + Ordered(PreOrder.items, p)

\* C4: a cancel-order that answers 200 has raised the owning account's balance
\* by half the order's totalAmount, the admin account's balance by the same
\* amount, left the order Canceled, and reports that amount as refundAmount.
\* (Fails: an order owned by the admin account is credited twice.)
C4_CancelCreditsHalfToEach ==
    (Answered("cancel-order") /\ S.resp.code = 200)
    => /\ balance[PreOrder.account] = Pre.balance[PreOrder.account] + PreOrder.totalAmount \div 2
       /\ \A a \in AdminAccounts : balance[a] = Pre.balance[a] + PreOrder.totalAmount \div 2
       /\ orders[S.orderId].status = "Canceled"
       /\ S.resp.refundAmount = PreOrder.totalAmount \div 2

\* C5: cancel-order on an existing order that is not Paid answers 400 and
\* changes no balance, no stock and no order.
C5_CancelRefusedUnlessPaid ==
    (Answered("cancel-order") /\ PreExists /\ PreOrder.status # "Paid")
    => S.resp.code = 400 /\ DbUnchanged

\* a cancel-order on a Shipping order has been answered
C5_CancelOfShippingAnswered ==
    Answered("cancel-order") /\ PreExists /\ PreOrder.status = "Shipping"

\* the cart an add-to-cart request brought, against the state it found
ValidAccount == S.account \in Accounts
AccountMissing == S.account \notin Accounts
NoItems == ~S.hasItems \/ Len(S.items) = 0
ProductMissing == \E k \in 1..Len(S.items) : S.items[k].product \notin Products
OverStock ==
    \E k \in 1..Len(S.items) :
       /\ S.items[k].product \in Products
       /\ S.items[k].quantity > Pre.quantity[S.items[k].product]

\* the sum over the line items of price * quantity
RECURSIVE CartTotal(_)
CartTotal(items) ==
    IF items = <<>> THEN 0
    ELSE price[Head(items).product] * Head(items).quantity + CartTotal(Tail(items))

\* C6: add-to-cart with an existing account and a non-empty list of existing
\* products, none asked for beyond its stock, persists one new order: Pending,
\* no delivery image, the same line items, totalAmount the sum of price times
\* quantity.
C6_ValidCartPersisted ==
    (Answered("add-to-cart") /\ ValidAccount /\ ~NoItems /\ ~ProductMissing /\ ~OverStock)
    => /\ S.resp.code = 201
       /\ S.resp.orderId = Len(Pre.orders) + 1
       /\ orders = Append(Pre.orders,
                      [account |-> S.account, items |-> S.items,
                       totalAmount |-> CartTotal(S.items), status |-> "Pending",
                       imageConfirmDelivered |-> Null])
       /\ quantity = Pre.quantity /\ balance = Pre.balance

\* a cart of two different products, two units of one of them, was accepted
C6_TwoLineCartAccepted ==
    /\ Answered("add-to-cart") /\ S.resp.code = 201
    /\ Len(S.items) = 2 /\ S.items[1].product # S.items[2].product
    /\ S.items[1].quantity = 2

\* C7: update-shipping on an existing order that is not Paid answers 400 and
\* changes nothing; on a Paid order it answers 200 and sets the status to
\* Shipping, changing no stock and no balance.
C7_ShippingOnlyFromPaid ==
    (Answered("update-shipping") /\ PreExists)
    => IF PreOrder.status # "Paid"
       THEN S.resp.code = 400 /\ DbUnchanged
       ELSE /\ S.resp.code = 200
            /\ orders = [Pre.orders EXCEPT ![S.orderId].status = "Shipping"]
            /\ quantity = Pre.quantity /\ balance = Pre.balance

\* an update-shipping on a Paid order has been answered
C7_PaidOrderShipped ==
    Answered("update-shipping") /\ PreExists /\ PreOrder.status = "Paid"

\* C8: confirm-delivery without a file, on an existing order in any status,
\* answers 400 and leaves the order's status and delivery image as they were.
C8_DeliveryNeedsFile ==
    (Answered("confirm-delivery") /\ ~S.file /\ PreExists)
    => S.resp.code = 400 /\ DbUnchanged

\* a confirm-delivery without a file on a Shipping order has been answered
C8_NoFileOnShippingAnswered ==
    Answered("confirm-delivery") /\ ~S.file /\ PreExists /\ PreOrder.status = "Shipping"

C11_MailNeverFailsCancel ==
    (Answered("cancel-order") /\ PreExists /\ PreOrder.status = "Paid")
    => LET half == PreOrder.totalAmount \div 2
           owner == PreOrder.account
       IN /\ S.mail \in {"sent", "failed"}
          /\ S.resp.code = 200 /\ S.resp.refundAmount = half
          /\ orders[S.orderId].status = "Canceled"
          /\ balance[owner] >= Pre.balance[owner] + half

\* a Paid order was cancelled and the refund email could not be sent
C11_MailFailedAnswered ==
    /\ Answered("cancel-order") /\ PreExists /\ PreOrder.status = "Paid"
    /\ S.mail = "failed" /\ S.resp.code = 200

\* C12: however many confirm-payment requests with a success code arrive for
\* one order, overlapping or not, the stock of each of its line items is
\* reduced for that order at most once.
C12_StockReducedAtMostOnce ==
    \A id \in 1..Len(orders) : \A k \in 1..Len(orders[id].items) :
        ledger[id].reduced[k] <= 1

\* C13: confirm-payment persists the status before it touches any stock:
\* whenever the request has reduced a stock, the order is already persisted as
\* Paid; and when the request stops inside the stock loop, the order stays
\* Paid, exactly the line items before the failing one are deducted and the
\* deductions made stay in place.
C13_PaidBeforeStockPrefix ==
    (S.op = "confirm-payment" /\ S.pc # "idle")
    => LET items == S.order.items
           applied == IF S.pc = "done" /\ ~S.threw /\ S.resp.status = "success"
                      THEN Len(items)
                      ELSE IF S.i = 0 THEN 0 ELSE S.i - 1
       IN /\ quantity # Pre.quantity => orders[S.orderId].status = "Paid"
          /\ (S.pc = "done" /\ S.threw /\ S.i >= 1)
             => orders[S.orderId].status = "Paid" /\ applied < Len(items)
          /\ \A p \in Products :
                quantity[p] = Pre.quantity[p] - Ordered(SubSeq(items, 1, applied), p)

\* a confirm-payment of a two-line order stopped by an exception after the
\* first line item was deducted and before the second was
C13_StoppedAfterFirstItem ==
    /\ S.op = "confirm-payment" /\ S.pc = "done" /\ S.threw
    /\ Len(S.order.items) = 2 /\ S.i = 2
    /\ orders[S.orderId].status = "Paid"
    /\ quantity # Pre.quantity

\* C14: two different orders for the same product that each passed the stock
\* check when they were created can both be confirmed, because confirm-payment
\* does not look at the stock again: once both are paid for (and neither has
\* been cancelled) the product's quantity is the initial stock minus both
\* quantities, which is negative when together they ask for more than the stock.
C14_BothConfirmedOversell ==
    (/\ Len(orders) = 2
     /\ S.pc \in {"idle", "done"}
     /\ \A id \in 1..2 : /\ Len(orders[id].items) = 1
                         /\ orders[id].status \in {"Paid", "Shipping", "Delivered"}
     /\ orders[1].items[1].product = orders[2].items[1].product)
    => LET p == orders[1].items[1].product
           asked == orders[1].items[1].quantity + orders[2].items[1].quantity
       IN /\ quantity[p] = InitQuantity - asked
          /\ asked > InitQuantity => quantity[p] < 0

\* two paid orders for the same product and a negative quantity of it
C14_NegativeStock ==
    /\ Len(orders) = 2
    /\ \A id \in 1..2 : Len(orders[id].items) = 1 /\ orders[id].status = "Paid"
    /\ orders[1].items[1].product = orders[2].items[1].product
    /\ quantity[orders[1].items[1].product] < 0

\* C15: credits to one account race.  When two add-balance requests on the
\* same account have both read the balance before either wrote it and both
\* have answered 200, the balance has grown by one of the two amounts only,
\* not by their sum.
C15_OneCreditLost ==
    \A r, o \in Reqs :
        (/\ r # o
         /\ \A x \in {r, o} : /\ req[x].op = "add-balance" /\ req[x].pc = "done"
                              /\ req[x].resp.code = 200
         /\ req[r].account = req[o].account
         /\ req[r].doc = req[o].doc)
        => LET a == req[r].account
               grown == balance[a] - req[r].doc
           IN /\ grown \in {req[r].amount, req[o].amount}
              /\ grown < req[r].amount + req[o].amount

\* both requests have reported success and the balance holds the smaller
\* of two different amounts
C15_BothAnsweredOneCredit ==
    /\ \A x \in Reqs : /\ req[x].op = "add-balance" /\ req[x].pc = "done"
                       /\ req[x].resp.code = 200 /\ req[x].account = "cust"
    /\ req["r1"].doc = 0 /\ req["r2"].doc = 0
    /\ req["r1"].amount = 2 /\ req["r2"].amount = 1
    /\ balance["cust"] = 1

\* C16: an order is refunded at most once: over every sequence and every
\* interleaving of cancel-order requests on one order, the owner is credited
\* for it no more than 50% of its totalAmount in all, and the stock of each of
\* its line items is restored at most once.
C16_RefundedAtMostOnce ==
    \A id \in 1..Len(orders) :
        /\ ledger[id].refunds * RefundAmount(orders[id]) <= orders[id].totalAmount \div 2
        /\ \A k \in 1..Len(orders[id].items) : ledger[id].restored[k] <= 1

\* C17: no order is both refunded and delivered: once a cancellation refund
\* has been credited for an order, its persisted status is never Shipping or
\* Delivered, whatever the interleaving of cancel-order, update-shipping and
\* confirm-delivery.
C17_RefundedNeverShipped ==
    \A id \in 1..Len(orders) :
        ledger[id].refunds > 0 => orders[id].status \notin {"Shipping", "Delivered"}

\* C18: a single accepted order whose products no other order touches never
\* drives a stock below zero when its payment is confirmed, whatever the
\* accepted item list, also one naming a product in several line items.
C18_SingleOrderStockNonNegative ==
    Len(orders) = 1 => \A p \in Products : quantity[p] >= 0

\* C19: under every interleaving, an order has a delivery image exactly when
\* its status is Delivered.
C19_ImageIffDelivered ==
    \A id \in 1..Len(orders) :
        orders[id].imageConfirmDelivered # Null <=> orders[id].status = "Delivered"

\* C20: cancel-order is all-or-nothing with respect to its response: when it
\* ends with anything but 200 (404, 400, or 500 after a failure at any step),
\* the request has changed no balance, no stock and no order status.
C20_CancelAllOrNothing ==
    (S.op = "cancel-order" /\ S.pc = "done" /\ S.resp.code # 200) => DbUnchanged

\* C21: the shipper-orders listing returns exactly the orders whose status is
\* Paid, Shipping or Delivered, each once, ordered by status and within a
\* status by most recent creation, with the Paid orders ahead of the orders
\* of the other two statuses.
C21_ListingPaidFirst ==
    Answered("shipper-orders")
    => LET l == S.listed
           st(k) == Pre.orders[l[k]].status
       IN /\ S.resp.code = 200
          /\ {l[k] : k \in 1..Len(l)} =
                {id \in 1..Len(Pre.orders) : Pre.orders[id].status \in {"Paid", "Shipping", "Delivered"}}
          /\ \A j, k \in 1..Len(l) : j < k =>
                /\ l[j] # l[k]
                /\ st(j) = st(k) => l[j] > l[k]
                /\ st(k) = "Paid" => st(j) = "Paid"

====
